---- MODULE Spec2Model ----
(***************************************************************************)
(* Model of src/err.rs of libblkid-rs: the BlkidErr error type, its        *)
(* From conversions (from_err!), its Display rendering and its Error impl, *)
(* driven by a caller that makes fallible calls, propagates the error up   *)
(* its call chain, renders it into a log, walks its source chain and       *)
(* finally drops it.                                                       *)
(*                                                                         *)
(* Text is modelled by TLA+ strings: \o is concatenation, as write! does.  *)
(* An underlying cause is a record [ty, text]: its Rust type and the text  *)
(* its own Display impl produces (opaque to this crate).                   *)
(***************************************************************************)
EXTENDS Integers, Sequences, FiniteSets, TLC

VARIABLES err, cause, how, code, frame, log, src

vars == <<err, cause, how, code, frame, log, src>>

\* ---------------------------------------------------------------- bounds

\* Native return codes range over -MaxCode..MaxCode.
MaxCode == 2
\* The error is propagated through at most MaxDepth callers.
MaxDepth == 1
\* At most MaxRenders distinct lines are kept in the log.
MaxRenders == 2

\* ------------------------------------------------------------ data model

\* The payload of a variant without payload.
NoPayload == [ty |-> "None", text |-> ""]

\* No error value is alive (before construction, on success, after drop).
NoErr == [variant |-> "NoErr", payload |-> NoPayload]

\* enum BlkidErr: the twelve variants.
Variants ==
    {"Null", "BytesWithNull", "IntoString", "PositiveReturnCode", "InvalidConv",
     "UTF8", "FromUTF8", "FromInt", "IO", "Uuid", "Other", "LibErr"}

\* The variants whose payload is an underlying cause.
WrappedVariants ==
    {"Null", "BytesWithNull", "IntoString", "UTF8", "FromUTF8", "FromInt", "IO", "Uuid"}

\* The variants without payload.
UnitVariants == {"PositiveReturnCode", "InvalidConv", "LibErr"}

\* The payload type each variant is declared with.
PayloadType(variant) ==
    CASE variant = "Null" -> "NulError"
      [] variant = "BytesWithNull" -> "FromBytesWithNulError"
      [] variant = "IntoString" -> "IntoStringError"
      [] variant = "PositiveReturnCode" -> "None"
      [] variant = "InvalidConv" -> "None"
      [] variant = "UTF8" -> "Utf8Error"
      [] variant = "FromUTF8" -> "FromUtf8Error"
      [] variant = "FromInt" -> "TryFromIntError"
      [] variant = "IO" -> "IoError"
      [] variant = "Uuid" -> "UuidError"
      [] variant = "Other" -> "String"
      [] variant = "LibErr" -> "None"

\* The types of the underlying causes the variants wrap.
CauseTypes == {PayloadType(v) : v \in WrappedVariants}

\* The texts an underlying cause may render to (its own Display, the {e} of
\* the format strings); the first is std's text for TryFromIntError.
CauseTexts == {"out of range integral type conversion attempted", "UTF8 error: x"}

\* The underlying causes a failing operation may return.
Causes == [ty : CauseTypes, text : CauseTexts]

\* The messages a caller may give to Other.
Messages == {"", "custom message", "The requested conversion was unsuccessful"}

\* ------------------------------------------------------------ conversions

\* A from_err! table that lost the FromUtf8Error line.
from_err_without_FromUtf8Error ==
    ("NulError" :> "Null")
    @@ ("FromBytesWithNulError" :> "BytesWithNull")
    @@ ("IoError" :> "IO")
    @@ ("Utf8Error" :> "UTF8")
    @@ ("TryFromIntError" :> "FromInt")

\* from_err!( $err => $variant, ... ): the cause types that have an
\* impl From<$err> for BlkidErr, each with its variant.
from_err ==
    ("NulError" :> "Null")
    @@ ("FromBytesWithNulError" :> "BytesWithNull")
    @@ ("IoError" :> "IO")
    @@ ("Utf8Error" :> "UTF8")
    @@ ("FromUtf8Error" :> "FromUTF8")
    @@ ("TryFromIntError" :> "FromInt")

\* A From that wraps both text-validation errors into UTF8.
From_bothUTF8(v) ==
    [variant |-> IF v.ty = "FromUtf8Error" THEN "UTF8" ELSE from_err[v.ty],
     payload |-> v]

\* fn from(v: $err) -> Self { BlkidErr::$variant(v) }
From(v) == [variant |-> from_err[v.ty], payload |-> v]

\* ---------------------------------------------------------------- Display

\* A fmt whose FromUTF8 arm has the prefix of the UTF8 arm.
fmt_FromUTF8_as_UTF8(e) ==
    LET t == e.payload.text IN
    CASE e.variant = "Null" -> "Null error during string conversion: " \o t
      [] e.variant = "BytesWithNull" -> "Null error when converting from slice: " \o t
      [] e.variant = "IntoString" -> "Could not convert C string to string: " \o t
      [] e.variant = "PositiveReturnCode" ->
            "Positive return code found when <= 0 was expected"
      [] e.variant = "InvalidConv" -> "The requested conversion was unsuccessful"
      [] e.variant = "UTF8" -> "UTF8 error: " \o t
      [] e.variant = "FromUTF8" -> "UTF8 error: " \o t
      [] e.variant = "FromInt" -> "Int conversion error: " \o t
      [] e.variant = "IO" -> "An IO error occurred: " \o t
      [] e.variant = "Uuid" -> "A UUID error occurred: " \o t
      [] e.variant = "Other" -> t
      [] e.variant = "LibErr" -> "libblkid returned an error code indicating an operation could not be completed successfully"

\* A fmt whose wrapped-cause arms leave the cause out.
fmt_without_cause(e) ==
    LET t == e.payload.text IN
    CASE e.variant = "Null" -> "Null error during string conversion: "
      [] e.variant = "BytesWithNull" -> "Null error when converting from slice: "
      [] e.variant = "IntoString" -> "Could not convert C string to string: "
      [] e.variant = "PositiveReturnCode" ->
            "Positive return code found when <= 0 was expected"
      [] e.variant = "InvalidConv" -> "The requested conversion was unsuccessful"
      [] e.variant = "UTF8" -> "UTF8 error: "
      [] e.variant = "FromUTF8" -> "UTF8 conversion error: "
      [] e.variant = "FromInt" -> "Int conversion error: "
      [] e.variant = "IO" -> "An IO error occurred: "
      [] e.variant = "Uuid" -> "A UUID error occurred: "
      [] e.variant = "Other" -> t
      [] e.variant = "LibErr" -> "libblkid returned an error code indicating an operation could not be completed successfully"

\* A fmt whose Other arm adds a prefix to the message.
fmt_Other_prefixed(e) ==
    LET t == e.payload.text IN
    CASE e.variant = "Null" -> "Null error during string conversion: " \o t
      [] e.variant = "BytesWithNull" -> "Null error when converting from slice: " \o t
      [] e.variant = "IntoString" -> "Could not convert C string to string: " \o t
      [] e.variant = "PositiveReturnCode" ->
            "Positive return code found when <= 0 was expected"
      [] e.variant = "InvalidConv" -> "The requested conversion was unsuccessful"
      [] e.variant = "UTF8" -> "UTF8 error: " \o t
      [] e.variant = "FromUTF8" -> "UTF8 conversion error: " \o t
      [] e.variant = "FromInt" -> "Int conversion error: " \o t
      [] e.variant = "IO" -> "An IO error occurred: " \o t
      [] e.variant = "Uuid" -> "A UUID error occurred: " \o t
      [] e.variant = "Other" -> "Error: " \o t
      [] e.variant = "LibErr" -> "libblkid returned an error code indicating an operation could not be completed successfully"

\* A fmt whose PositiveReturnCode arm has the sentence of the LibErr arm.
fmt_PositiveReturnCode_as_LibErr(e) ==
    LET t == e.payload.text IN
    CASE e.variant = "Null" -> "Null error during string conversion: " \o t
      [] e.variant = "BytesWithNull" -> "Null error when converting from slice: " \o t
      [] e.variant = "IntoString" -> "Could not convert C string to string: " \o t
      [] e.variant = "PositiveReturnCode" -> "libblkid returned an error code indicating an operation could not be completed successfully"
      [] e.variant = "InvalidConv" -> "The requested conversion was unsuccessful"
      [] e.variant = "UTF8" -> "UTF8 error: " \o t
      [] e.variant = "FromUTF8" -> "UTF8 conversion error: " \o t
      [] e.variant = "FromInt" -> "Int conversion error: " \o t
      [] e.variant = "IO" -> "An IO error occurred: " \o t
      [] e.variant = "Uuid" -> "A UUID error occurred: " \o t
      [] e.variant = "Other" -> t
      [] e.variant = "LibErr" -> "libblkid returned an error code indicating an operation could not be completed successfully"

\* impl Display for BlkidErr: fn fmt, the text written to the formatter.
fmt(e) ==
    LET t == e.payload.text IN
    CASE e.variant = "Null" -> "Null error during string conversion: " \o t
      [] e.variant = "BytesWithNull" -> "Null error when converting from slice: " \o t
      [] e.variant = "IntoString" -> "Could not convert C string to string: " \o t
      [] e.variant = "PositiveReturnCode" ->
            "Positive return code found when <= 0 was expected"
      [] e.variant = "InvalidConv" -> "The requested conversion was unsuccessful"
      [] e.variant = "UTF8" -> "UTF8 error: " \o t
      [] e.variant = "FromUTF8" -> "UTF8 conversion error: " \o t
      [] e.variant = "FromInt" -> "Int conversion error: " \o t
      [] e.variant = "IO" -> "An IO error occurred: " \o t
      [] e.variant = "Uuid" -> "A UUID error occurred: " \o t
      [] e.variant = "Other" -> t
      [] e.variant = "LibErr" -> "libblkid returned an error code indicating an operation could not be completed successfully"

\* ------------------------------------------------------------------ Error

\* A source() that hands out the wrapped cause.
source_payload(e) == IF e.variant \in WrappedVariants THEN {e.payload} ELSE {}

\* impl Error for BlkidErr {}: source() is the trait's default, None. An
\* Option is the set of its values: None is {}, Some(c) is {c}.
source(e) == {}

\* The result of source() before it was called.
NotAsked == [asked |-> FALSE, next |-> {}]

\* ---------------------------------------------------- native return codes

\* A classification that takes every non-zero code for a library error.
classify_nonzero_LibErr(rc) ==
    IF rc = 0 THEN NoErr ELSE [variant |-> "LibErr", payload |-> NoPayload]

\* The calling code's classification of a native return code: 0 is success,
\* a negative code is LibErr, a positive code is PositiveReturnCode.
classify(rc) ==
    IF rc = 0 THEN NoErr
    ELSE IF rc < 0 THEN [variant |-> "LibErr", payload |-> NoPayload]
    ELSE [variant |-> "PositiveReturnCode", payload |-> NoPayload]

\* ---------------------------------------------------------------- actions

Init ==
    /\ err = NoErr
    /\ cause = NoPayload
    /\ how = "none"
    /\ code = 0
    /\ frame = 0
    /\ log = {}
    /\ src = NotAsked

\* A new error value: owned by the frame that made it, not yet asked for
\* its source.
Constructed(e, c, h, rc) ==
    /\ err' = e
    /\ cause' = c
    /\ how' = h
    /\ code' = rc
    /\ frame' = 0
    /\ src' = NotAsked
    /\ UNCHANGED log

\* An operation fails with an underlying cause that has a From impl, and
\* the cause is converted into BlkidErr (?, .into()).
Convert ==
    \E c \in Causes :
        /\ how = "none"
        /\ c.ty \in DOMAIN from_err
        /\ Constructed(From(c), c, "from", 0)

\* The calling code wraps a cause itself: BlkidErr::$variant(v).
Wrap ==
    \E variant \in WrappedVariants, c \in Causes :
        /\ how = "none"
        /\ c.ty = PayloadType(variant)
        /\ Constructed([variant |-> variant, payload |-> c], c, "explicit", 0)

\* The calling code makes BlkidErr::Other(message).
MakeOther ==
    \E m \in Messages :
        LET s == [ty |-> "String", text |-> m] IN
        /\ how = "none"
        /\ Constructed([variant |-> "Other", payload |-> s], s, "explicit", 0)

\* The calling code makes a variant without payload.
MakeUnit ==
    \E variant \in UnitVariants :
        /\ how = "none"
        /\ Constructed([variant |-> variant, payload |-> NoPayload], NoPayload, "explicit", 0)

\* A call into the native library returns rc and the calling code
\* classifies it.
NativeCall ==
    \E rc \in (-MaxCode)..MaxCode :
        /\ how = "none"
        /\ Constructed(classify(rc), NoPayload, "native", rc)

\* The error returned to the caller's caller: ownership moves up one frame.
Propagate ==
    /\ err # NoErr
    /\ frame < MaxDepth
    /\ frame' = frame + 1
    /\ UNCHANGED <<err, cause, how, code, log, src>>

\* A renderer that keeps only the message: the error becomes Other(text).
Render_collapsing ==
    /\ err # NoErr
    /\ Cardinality(log) < MaxRenders
    /\ log' = log \cup {[e |-> err, text |-> fmt(err)]}
    /\ err' = [variant |-> "Other", payload |-> [ty |-> "String", text |-> fmt(err)]]
    /\ UNCHANGED <<cause, how, code, frame, src>>

\* The error is rendered (to_string, {}) through &self and the line goes
\* to the log, the set of the lines written with the value each renders.
Render ==
    /\ err # NoErr
    /\ Cardinality(log) < MaxRenders
    /\ log' = log \cup {[e |-> err, text |-> fmt(err)]}
    /\ UNCHANGED <<err, cause, how, code, frame, src>>

\* A consumer walking the failure chain asks the error for its source.
Source ==
    /\ err # NoErr
    /\ src' = [asked |-> TRUE, next |-> source(err)]
    /\ UNCHANGED <<err, cause, how, code, frame, log>>

\* The result is handled and the error value, if any, dropped.
Drop ==
    /\ how # "none"
    /\ err' = NoErr
    /\ cause' = NoPayload
    /\ how' = "none"
    /\ code' = 0
    /\ frame' = 0
    /\ src' = NotAsked
    /\ UNCHANGED log

Next ==
    \/ Convert
    \/ Wrap
    \/ MakeOther
    \/ MakeUnit
    \/ NativeCall
    \/ Propagate
    \/ Render
    \/ Source
    \/ Drop

Spec == Init /\ [][Next]_vars

\* ------------------------------------------------------- text predicates

\* t occurs in s verbatim.
Contains(s, t) ==
    \E i \in 0..(Len(s) - Len(t)) : SubSeq(s, i + 1, i + Len(t)) = t

\* p is a prefix of s.
IsPrefix(p, s) == Len(p) <= Len(s) /\ SubSeq(s, 1, Len(p)) = p

\* What a variant renders apart from its payload: its rendering with an
\* empty payload text.
FixedPart(variant) ==
    fmt([variant |-> variant, payload |-> [ty |-> PayloadType(variant), text |-> ""]])

\* The current error has been rendered into the log.
Rendered == \E a \in log : a.e = err

\* ------------------------------------------------------------------ claims

\* The variant the claim C1 names for each of the six cause types.
C1_Matching ==
    ("NulError" :> "Null")
    @@ ("FromBytesWithNulError" :> "BytesWithNull")
    @@ ("IoError" :> "IO")
    @@ ("Utf8Error" :> "UTF8")
    @@ ("FromUtf8Error" :> "FromUTF8")
    @@ ("TryFromIntError" :> "FromInt")

\* C1: the automatic conversion of a cause of one of the six types NulError,
\* FromBytesWithNulError, io::Error, Utf8Error, FromUtf8Error, TryFromIntError
\* yields exactly the matching variant, with the original cause as payload.
C1_FromWrapsIntoMatchingVariant ==
    how = "from" =>
        /\ cause.ty \in DOMAIN C1_Matching
        /\ err.variant = C1_Matching[cause.ty]
        /\ err.payload = cause

\* A FromUtf8Error has been converted.
C1_Witness ==
    /\ how = "from"
    /\ cause.ty = "FromUtf8Error"
    /\ err.variant = "FromUTF8"

\* C2: a converted cause, rendered, gives a text that contains the variant's
\* fixed phrase and the cause's own text verbatim; a converted numeric-range
\* error renders as "Int conversion error: " followed by the cause's text
\* and nothing else.
C2_ConvertedRenderingHasPhraseAndCause ==
    \A a \in log :
        (how = "from" /\ a.e = err) =>
            /\ Len(FixedPart(err.variant)) > 0
            /\ Contains(a.text, FixedPart(err.variant))
            /\ Contains(a.text, cause.text)
            /\ (cause.ty = "TryFromIntError" =>
                    a.text = "Int conversion error: " \o cause.text)

\* A converted numeric-range error has been rendered.
C2_Witness ==
    /\ how = "from"
    /\ cause.ty = "TryFromIntError"
    /\ cause.text = "out of range integral type conversion attempted"
    /\ Rendered

\* C3: a native return code of 0 is success (no PositiveReturnCode, no
\* LibErr), a negative code gives LibErr and a positive code gives
\* PositiveReturnCode.
C3_ReturnCodeClassification ==
    how = "native" =>
        /\ (code = 0 => err = NoErr)
        /\ (code < 0 => err.variant = "LibErr")
        /\ (code > 0 => err.variant = "PositiveReturnCode")

\* A native call has returned a positive code.
C3_Witness ==
    /\ how = "native"
    /\ code > 0
    /\ err.variant = "PositiveReturnCode"

\* C4: Other(m) renders exactly m, for every message m.
C4_OtherRendersMessageVerbatim ==
    \A a \in log : a.e.variant = "Other" => a.text = a.e.payload.text

\* An Other whose message is another variant's sentence, and an Other with
\* the empty message, have been rendered.
C4_Witness ==
    /\ \E a \in log : a.e.variant = "Other" /\ a.e.payload.text = FixedPart("InvalidConv")
    /\ \E a \in log : a.e.variant = "Other" /\ a.e.payload.text = ""

\* The sentence of PositiveReturnCode.
C5_PositiveReturnCodeSentence == "Positive return code found when <= 0 was expected"

\* The sentence of LibErr.
C5_LibErrSentence ==
    "libblkid returned an error code indicating an operation could not be completed successfully"

\* C5: PositiveReturnCode and LibErr each render one fixed sentence,
\* whatever the return code or anything else was, and the two differ.
C5_NativeFailuresRenderFixedDistinctSentences ==
    \A a \in log, b \in log :
        /\ (a.e.variant = "PositiveReturnCode" => a.text = C5_PositiveReturnCodeSentence)
        /\ (a.e.variant = "LibErr" => a.text = C5_LibErrSentence)
        /\ (a.e.variant = "PositiveReturnCode" /\ b.e.variant = "LibErr" =>
                a.text # b.text)

\* A LibErr was rendered, and now a PositiveReturnCode classified from a
\* code other than 1 is rendered too.
C5_Witness ==
    /\ how = "native"
    /\ code > 1
    /\ Rendered
    /\ \E b \in log : b.e.variant = "LibErr"

\* The variants that C6 as amended leaves to explicit construction.
C6_NoConversion == {"IntoString", "Uuid"}

\* C6 as stated: every variant that carries a cause (IntoString and Uuid
\* included) is what the automatic conversion of some cause yields.
C6_Original ==
    err.variant \in WrappedVariants =>
        \E c \in Causes : c.ty \in DOMAIN from_err /\ From(c) = err

\* C6 as amended: every cause-carrying variant other than IntoString and
\* Uuid is what the automatic conversion of its cause yields; IntoString and
\* Uuid have no conversion and are only made explicitly.
C6_ConversionsButIntoStringAndUuid ==
    /\ err.variant \in WrappedVariants \ C6_NoConversion =>
           \E c \in Causes : c.ty \in DOMAIN from_err /\ From(c) = err
    /\ err.variant \in C6_NoConversion =>
           /\ how = "explicit"
           /\ PayloadType(err.variant) \notin DOMAIN from_err

\* An explicitly wrapped FromUtf8Error, which a conversion yields as well.
C6_Witness ==
    /\ how = "explicit"
    /\ err.variant = "FromUTF8"

\* C8: source() is None for every variant, so walking the chain stops at
\* the BlkidErr; the cause of a wrapped-cause variant is its payload.
C8_NoSourceButPayload ==
    /\ src.asked => src.next = {}
    /\ err.variant \in WrappedVariants =>
           /\ err.payload = cause
           /\ err.payload.ty = PayloadType(err.variant)

\* A wrapped I/O error has been asked for its source.
C8_Witness ==
    /\ src.asked
    /\ err.variant = "IO"
    /\ how = "from"

\* C9: from its construction to its drop, through renderings and
\* propagation, an error keeps its variant and its payload, and the variant
\* is one of the twelve.
C9_ErrorImmutable ==
    /\ [](err # NoErr =>
            /\ err.variant \in Variants
            /\ err.payload.ty = PayloadType(err.variant)
            /\ err.payload = cause)
    /\ [][(err # NoErr /\ err' # NoErr) => err' = err]_vars

\* An error has been rendered and propagated.
C9_Witness ==
    /\ err # NoErr
    /\ Rendered
    /\ frame > 0

\* C10: two errors of different variants, neither Other, render to
\* different texts whatever their payloads: the eleven fixed parts are
\* pairwise distinct and none is a prefix of another.
C10_RenderingIdentifiesVariant ==
    \A a \in log, b \in log :
        (/\ a.e.variant # b.e.variant
         /\ a.e.variant # "Other"
         /\ b.e.variant # "Other") =>
            /\ a.text # b.text
            /\ ~IsPrefix(FixedPart(a.e.variant), FixedPart(b.e.variant))

\* A UTF8 and a FromUTF8 with the same cause text have been rendered.
C10_Witness ==
    \E a \in log, b \in log :
        /\ a.e.variant = "UTF8"
        /\ b.e.variant = "FromUTF8"
        /\ a.e.payload.text = b.e.payload.text

====
